---- MODULE Spec2Model ----
(***************************************************************************)
(* Model of `kcctl join` (pkg/cli/join/join.go): one invocation of the     *)
(* join command against a deploy config, a set of candidate agent nodes    *)
(* and a remote transport whose calls succeed or fail.                     *)
(***************************************************************************)
EXTENDS Integers, Sequences, FiniteSets, TLC

\* ------------------------------------------------------------------ bounds
MaxNodes == 3

Nodes == 1..MaxNodes
Regions == {"r1", "r2"}

\* files := []string{MQ.CA, MQ.ClientCert, MQ.ClientKey}
Files == <<"ca", "cert", "key">>
FileSet == {Files[i] : i \in 1..Len(Files)}

\* the three remote writes of agentNodeFiles' cmdList
cmdList == <<"kc-agent.service", "mkdir", "kubeclipper-agent.yaml">>

VARIABLES
    pc,            \* position inside NewCmdJoin.Run
    agents,        \* c.agents: the raw --agent tokens
    agentRegion,   \* c.agentRegion: region -> list of candidate addresses
    ServerIPs,     \* c.deployConfig.ServerIPs
    MQTLS,         \* c.deployConfig.MQ.TLS
    MQ,            \* c.deployConfig.MQ: External, CA, ClientCert, ClientKey
    Debug,         \* c.deployConfig.Debug
    AgentRegions,  \* c.deployConfig.AgentRegions, in memory
    disk,          \* AgentRegions as persisted in deploy-config.yaml
    diskSettings,  \* the server list and the settings as persisted in deploy-config.yaml
    loaded,        \* AgentRegions as they were when the invocation started
    localFiles,    \* trust files present on the local machine
    order,         \* the (region, agent) pairs in the order the range visits them
    idx,           \* position of the loops of preCheck / runJoinAgentNode
    ops,           \* trace of transport calls and topology writes, oldest first
    exitCode,      \* process exit status, -1 while running
    outcome,       \* how the invocation ended
    completionMsg, \* "agent node join completed ..." was logged
    data,          \* the fields of the agent configuration rendered last
    certDest       \* trust file -> remote directory sendCerts sent it to last

vars == <<pc, agents, agentRegion, ServerIPs, MQTLS, MQ, Debug, AgentRegions, disk, diskSettings,
          loaded, localFiles, order, idx, ops, exitCode, outcome, completionMsg,
          data, certDest>>

\* ---------------------------------------------------------------- helpers
Range(s) == {s[i] : i \in 1..Len(s)}

RECURSIVE SortedSeq(_)
SortedSeq(S) ==
    IF S = {} THEN <<>>
    ELSE LET m == CHOOSE x \in S : \A y \in S : x <= y
         IN  <<m>> \o SortedSeq(S \ {m})

Perms(S) == {s \in [1..Cardinality(S) -> S] : \A i, j \in 1..Cardinality(S) : s[i] = s[j] => i = j}

EmptyRegions == [r \in Regions |-> <<>>]

\* options.Agents.ListIP
ListIP(a) == SortedSeq(UNION {Range(a[r]) : r \in Regions})

\* options.Agents.Exists
Exists(a, ip) == \E r \in Regions : ip \in a[r]

\* options.Agents.Add
Add(a, region, node) == [a EXCEPT ![region] = @ \cup {node}]

\* deployConfig.Write: the whole in-memory config replaces the file
Write(a) == a

\* everything of c.deployConfig but AgentRegions: the server list and the
\* cluster-wide settings (OpLog, Pkg and StaticServerPort have one value each)
Settings ==
    [ServerIPs |-> ServerIPs, MQTLS |-> MQTLS, MQ |-> MQ, Debug |-> Debug,
     OpLog |-> "oplog", Pkg |-> "pkg", StaticServerPort |-> "port"]

\* join.BuildAgentRegion: tokens folded into region -> addresses, first seen wins
RECURSIVE BuildAgentRegion(_)
BuildAgentRegion(tokens) ==
    IF tokens = <<>> THEN EmptyRegions
    ELSE LET n    == Len(tokens)
             rest == BuildAgentRegion(SubSeq(tokens, 1, n - 1))
             t    == tokens[n]
             seen == UNION {Range(rest[r]) : r \in Regions}
             firsts == {i \in 1..Len(t.ips) :
                           /\ t.ips[i] \notin seen
                           /\ \A j \in 1..(i - 1) : t.ips[j] # t.ips[i]}
             new  == [k \in 1..Cardinality(firsts) |->
                        t.ips[CHOOSE i \in firsts :
                                 Cardinality({j \in firsts : j < i}) = k - 1]]
         IN  [rest EXCEPT ![t.region] = @ \o new]

\* one entry of the trace
Ev(kind, targets, ok, exit, stdout, cur) ==
    [kind |-> kind, targets |-> targets, ok |-> ok, exit |-> exit,
     stdout |-> stdout, cur |-> cur]

\* remote operations that change a candidate node
MutatingKinds == {"sendPkg", "sendCert", "writeFile", "enable"}

Exit(code, how) ==
    /\ pc' = "exit"
    /\ exitCode' = code
    /\ outcome' = how

\* utils.CheckErr(err) with err != nil: print the error, os.Exit(1)
CheckErr(how) == Exit(1, how)

\* ------------------------------------------------------------------ paths
\* a cleaned path: absolute or relative, and its elements; no element is "."
Path(abs, comps) == [abs |-> abs, comps |-> comps]

\* filepath.Dir: the path without its last element ("/" and "." are their own Dir)
Dir(p) == IF p.comps = <<>> THEN p ELSE Path(p.abs, SubSeq(p.comps, 1, Len(p.comps) - 1))

\* filepath.Base: the last element; "/" for the root, "." for the empty path
Base(p) == IF p.comps = <<>> THEN p ELSE Path(FALSE, <<p.comps[Len(p.comps)]>>)

\* filepath.Join of two paths: the elements of b after those of a, cleaned
Join(a, b) == Path(a.abs, a.comps \o b.comps)

\* options.DefaultKcAgentConfigPath, DefaultCaPath, DefaultNatsPKIPath
DefaultKcAgentConfigPath == Path(TRUE, <<"etc", "kubeclipper-agent">>)
DefaultCaPath == Path(FALSE, <<"pki">>)
DefaultNatsPKIPath == Path(FALSE, <<"pki", "nats">>)

\* the configured path of a trust file
MQFile(mq, f) ==
    CASE f = "ca"   -> mq.CA
      [] f = "cert" -> mq.ClientCert
      [] f = "key"  -> mq.ClientKey

\* the directories a deploy config may keep its trust files in
CertDirs ==
    {Path(TRUE, <<>>), Path(TRUE, <<"etc", "kubeclipper-server", "pki">>), Path(FALSE, <<"certs">>)}

\* the MQ sections of the deploy configs considered
MQConfigs ==
    {[External   |-> e,
      CA         |-> Join(d1, Path(FALSE, <<"ca.crt">>)),
      ClientCert |-> Join(d2, Path(FALSE, <<"kc-server-nats-client.crt">>)),
      ClientKey  |-> Join(d3, Path(FALSE, <<"kc-server-nats-client.key">>))] :
        e \in BOOLEAN, d1 \in CertDirs, d2 \in CertDirs, d3 \in CertDirs}

\* a deploy config with managed certificates in one directory
ManagedMQ ==
    [External   |-> FALSE,
     CA         |-> Path(TRUE, <<"etc", "kubeclipper-server", "pki", "ca.crt">>),
     ClientCert |-> Path(TRUE, <<"etc", "kubeclipper-server", "pki", "kc-server-nats-client.crt">>),
     ClientKey  |-> Path(TRUE, <<"etc", "kubeclipper-server", "pki", "kc-server-nats-client.key">>)]

\* nothing rendered, nothing sent yet
NoFields == [k \in {} |-> FALSE]

\* ------------------------------------------------------------------- Init
\* the regions of S as a list
RECURSIVE RegionSeq(_)
RegionSeq(S) ==
    IF S = {} THEN <<>>
    ELSE LET r == CHOOSE x \in S : TRUE IN <<r>> \o RegionSeq(S \ {r})

\* raw tokens: one "region:ip,ip" token per region that has addresses
Tokens(lists) ==
    LET rs == RegionSeq({r \in Regions : lists[r] # <<>>})
    IN  [i \in 1..Len(rs) |-> [region |-> rs[i], ips |-> lists[rs[i]]]]

\* the candidates: every address under at most one region, the addresses of a
\* region in ascending order (the expansion of a range such as 1.1.1.1-1.1.1.3)
CandidateLists ==
    {[r \in Regions |-> SortedSeq({n \in Nodes : f[n] = r})] :
        f \in [Nodes -> Regions \cup {"none"}]}

\* a deploy config on disk keeps every address in at most one region
Topologies ==
    {a \in [Regions -> SUBSET Nodes] :
        \A r1, r2 \in Regions : r1 # r2 => a[r1] \cap a[r2] = {}}

Init ==
    /\ pc = "Complete"
    /\ \E l \in CandidateLists : agents = Tokens(l)
    /\ agentRegion = EmptyRegions
    /\ ServerIPs \in {<<>>, <<"s1">>}
    /\ MQTLS \in BOOLEAN
    /\ MQ = ManagedMQ
    /\ Debug = FALSE
    /\ data = NoFields
    /\ certDest = NoFields
    /\ AgentRegions \in Topologies
    /\ disk = AgentRegions
    /\ diskSettings = Settings
    /\ loaded = AgentRegions
    /\ localFiles \in SUBSET FileSet
    /\ order = <<>>
    /\ idx = 1
    /\ ops = <<>>
    /\ exitCode = -1
    /\ outcome = "running"
    /\ completionMsg = FALSE

\* ---------------------------------------------------------------- actions
\* JoinOptions.Complete, called under utils.CheckErr
Complete ==
    /\ pc = "Complete"
    /\ \/ /\ CheckErr("validation")      \* deployConfig.Complete() failed
          /\ UNCHANGED agentRegion
       \/ /\ agentRegion' = BuildAgentRegion(agents)
          /\ pc' = "ValidateArgs"
          /\ UNCHANGED <<exitCode, outcome>>
    /\ UNCHANGED <<data, certDest>>
    /\ UNCHANGED <<agents, ServerIPs, MQTLS, MQ, Debug, AgentRegions, disk, diskSettings, loaded, localFiles,
                   order, idx, ops, completionMsg>>

\* ValidateArgs without its test of deployConfig.ServerIPs
ValidateArgsNoServers ==
    /\ pc = "ValidateArgs"
    /\ IF Len(agents) = 0
       THEN CheckErr("validation")
       ELSE /\ pc' = "preCheck"
            /\ UNCHANGED <<exitCode, outcome>>
    /\ UNCHANGED <<data, certDest>>
    /\ UNCHANGED <<agents, agentRegion, ServerIPs, MQTLS, MQ, Debug, AgentRegions, disk, diskSettings, loaded,
                   localFiles, order, idx, ops, completionMsg>>

\* JoinOptions.ValidateArgs, called under utils.CheckErr
ValidateArgs ==
    /\ pc = "ValidateArgs"
    /\ IF Len(agents) = 0 \/ Len(ServerIPs) = 0
       THEN CheckErr("validation")
       ELSE /\ pc' = "preCheck"
            /\ UNCHANGED <<exitCode, outcome>>
    /\ UNCHANGED <<data, certDest>>
    /\ UNCHANGED <<agents, agentRegion, ServerIPs, MQTLS, MQ, Debug, AgentRegions, disk, diskSettings, loaded,
                   localFiles, order, idx, ops, completionMsg>>

\* the answer of `systemctl --all --type service | grep -Fq kc-agent` on a node
\* where the service is present or not: grep -q prints nothing, its exit
\* status alone tells whether a line matched
ProbeResult(present) == [ExitCode |-> IF present THEN 0 ELSE 1, Stdout |-> ""]

\* preCheckKcAgent's test of the probe's answer
ServiceExists(ret) == ret.ExitCode = 0 /\ ret.Stdout # ""

\* Run going on to RunJoinFunc although preCheck returned false
PreCheckIgnored ==
    /\ pc' = "runJoinServerNode"
    /\ UNCHANGED <<exitCode, outcome>>

\* preCheck returned false: Run returns without calling CheckErr
PreCheckFailed == Exit(0, "preflight")

\* sudo.PreCheck over every candidate address, first part of JoinOptions.preCheck
sudoPreCheck ==
    /\ pc = "preCheck"
    /\ \E ok \in BOOLEAN :
          /\ ops' = Append(ops, Ev("sudoCheck", Range(ListIP(agentRegion)), ok,
                                   IF ok THEN 0 ELSE 1, "", 0))
          /\ IF ok
             THEN /\ pc' = "preCheckKcAgent"
                  /\ UNCHANGED <<exitCode, outcome>>
             ELSE PreCheckFailed
    /\ idx' = 1
    /\ UNCHANGED <<data, certDest>>
    /\ UNCHANGED <<agents, agentRegion, ServerIPs, MQTLS, MQ, Debug, AgentRegions, disk, diskSettings, loaded,
                   localFiles, order, completionMsg>>

\* preCheckKcAgent without its look-up of the address in the deploy config
preCheckKcAgentNoLookup ==
    /\ pc = "preCheckKcAgent"
    /\ LET ips == ListIP(agentRegion)
           ip  == ips[idx]
           pass == /\ IF idx = Len(ips)
                      THEN pc' = "runJoinServerNode" /\ idx' = 1
                      ELSE pc' = "preCheckKcAgent" /\ idx' = idx + 1
                   /\ UNCHANGED <<exitCode, outcome>>
       IN  \/ /\ ops' = Append(ops, Ev("probe", {ip}, FALSE, -1, "", 0))
              /\ PreCheckFailed
              /\ UNCHANGED idx
           \/ \E present \in BOOLEAN :
                 LET ret == ProbeResult(present)
                 IN  /\ ops' = Append(ops, Ev("probe", {ip}, TRUE, ret.ExitCode,
                                              ret.Stdout, 0))
                     /\ IF ServiceExists(ret)
                        THEN PreCheckFailed /\ UNCHANGED idx
                        ELSE pass
    /\ UNCHANGED <<data, certDest>>
    /\ UNCHANGED <<agents, agentRegion, ServerIPs, MQTLS, MQ, Debug, AgentRegions, disk, diskSettings, loaded,
                   localFiles, order, completionMsg>>

\* JoinOptions.preCheckKcAgent for the idx-th address of ListIP, and the loop
\* of JoinOptions.preCheck around it
preCheckKcAgent ==
    /\ pc = "preCheckKcAgent"
    /\ LET ips == ListIP(agentRegion)
           ip  == ips[idx]
           pass == /\ IF idx = Len(ips)
                      THEN pc' = "runJoinServerNode" /\ idx' = 1
                      ELSE pc' = "preCheckKcAgent" /\ idx' = idx + 1
                   /\ UNCHANGED <<exitCode, outcome>>
       IN  IF Exists(AgentRegions, ip)
           THEN /\ PreCheckFailed                 \* "node is already deployed"
                /\ UNCHANGED <<ops, idx>>
           ELSE \/ /\ ops' = Append(ops, Ev("probe", {ip}, FALSE, -1, "", 0))
                   /\ PreCheckFailed              \* transport error
                   /\ UNCHANGED idx
                \/ \E present \in BOOLEAN :
                      LET ret == ProbeResult(present)
                      IN  /\ ops' = Append(ops, Ev("probe", {ip}, TRUE, ret.ExitCode,
                                                   ret.Stdout, 0))
                          /\ IF ServiceExists(ret)
                             THEN PreCheckFailed /\ UNCHANGED idx
                             ELSE pass
    /\ UNCHANGED <<data, certDest>>
    /\ UNCHANGED <<agents, agentRegion, ServerIPs, MQTLS, MQ, Debug, AgentRegions, disk, diskSettings, loaded,
                   localFiles, order, completionMsg>>

\* runJoinServerNode with a checkServerNode that runs a command on the server
\* and returns its error
runJoinServerNodeChecked ==
    /\ pc = "runJoinServerNode"
    /\ \E ok \in BOOLEAN :
          /\ ops' = Append(ops, Ev("checkServer", Range(ServerIPs), ok,
                                   IF ok THEN 0 ELSE 1, "", 0))
          /\ IF ok
             THEN pc' = "runJoinAgentNode" /\ UNCHANGED <<exitCode, outcome>>
             ELSE CheckErr("runtime")
    /\ UNCHANGED <<data, certDest>>
    /\ UNCHANGED <<agents, agentRegion, ServerIPs, MQTLS, MQ, Debug, AgentRegions, disk, diskSettings, loaded,
                   localFiles, order, idx, completionMsg>>

\* JoinOptions.runJoinServerNode: checkServerNode returns nil for every server
runJoinServerNode ==
    /\ pc = "runJoinServerNode"
    /\ pc' = "runJoinAgentNode"
    /\ UNCHANGED <<data, certDest>>
    /\ UNCHANGED <<agents, agentRegion, ServerIPs, MQTLS, MQ, Debug, AgentRegions, disk, diskSettings, loaded,
                   localFiles, order, idx, ops, exitCode, outcome, completionMsg>>

\* the (region, agent) pairs of a, regions in the order rs
RECURSIVE Flatten(_, _)
Flatten(a, rs) ==
    IF rs = <<>> THEN <<>>
    ELSE [i \in 1..Len(a[Head(rs)]) |-> <<Head(rs), a[Head(rs)][i]>>] \o Flatten(a, Tail(rs))

\* the orders in which `for region, agents := range c.agentRegion` can visit
\* the map: Go leaves the order of a map's keys unspecified
RangeOrders(a) == {Flatten(a, p) : p \in Perms({r \in Regions : a[r] # <<>>})}

\* entry of JoinOptions.runJoinAgentNode: the range over c.agentRegion starts
runJoinAgentNode ==
    /\ pc = "runJoinAgentNode"
    /\ order' \in RangeOrders(agentRegion)
    /\ idx' = 1
    /\ IF order' = <<>>
       THEN /\ completionMsg' = TRUE
            /\ Exit(0, "completed")
       ELSE /\ pc' = "agentNodeFiles"
            /\ UNCHANGED <<exitCode, outcome, completionMsg>>
    /\ UNCHANGED <<data, certDest>>
    /\ UNCHANGED <<agents, agentRegion, ServerIPs, MQTLS, MQ, Debug, AgentRegions, disk, diskSettings, loaded,
                   localFiles, ops>>

region == order[idx][1]
node == order[idx][2]

\* first step of JoinOptions.agentNodeFiles: utils.SendPackageV2 of the package
\* to the node, with the unpack-and-copy hook
SendPackageV2 ==
    /\ pc = "agentNodeFiles"
    /\ \E ok \in BOOLEAN :
          /\ ops' = Append(ops, Ev("sendPkg", {node}, ok, IF ok THEN 0 ELSE 1, "", node))
          /\ IF ok
             THEN pc' = "sendCerts" /\ UNCHANGED <<exitCode, outcome>>
             ELSE CheckErr("runtime")
    /\ UNCHANGED <<data, certDest>>
    /\ UNCHANGED <<agents, agentRegion, ServerIPs, MQTLS, MQ, Debug, AgentRegions, disk, diskSettings, loaded,
                   localFiles, order, idx, completionMsg>>

\* sendCerts downloading every file whether or not it is on the local disk
AlwaysDownload(files, f) == TRUE

\* sendCerts' `if !exist`: a file is downloaded when it is not on the local disk
NeedsDownload(files, f) == f \notin files

\* the ways the download loop of sendCerts can go from file i on: the events
\* issued, the local files afterwards, and whether the loop got through
RECURSIVE DownloadOutcomes(_, _, _, _)
DownloadOutcomes(i, files, evs, cur) ==
    IF i > Len(Files)
    THEN {[evs |-> evs, files |-> files, ok |-> TRUE]}
    ELSE LET f == Files[i]
         IN  {[evs |-> evs, files |-> files, ok |-> FALSE]}      \* IsFileExist failed
             \cup
             IF NeedsDownload(files, f)
             THEN {[evs |-> Append(evs, Ev("download", {f}, FALSE, 1, "", cur)),
                    files |-> files, ok |-> FALSE]}
                  \cup DownloadOutcomes(i + 1, files \cup {f},
                                        Append(evs, Ev("download", {f}, TRUE, 0, "", cur)), cur)
             ELSE DownloadOutcomes(i + 1, files, evs, cur)

\* the ways the three SendPackageV2 calls of sendCerts can go from file i on:
\* each sends one file to every address of c.agentRegion.ListIP()
RECURSIVE PushOutcomes(_, _, _, _)
PushOutcomes(i, targets, evs, cur) ==
    IF i > Len(Files)
    THEN {[evs |-> evs, ok |-> TRUE]}
    ELSE {[evs |-> Append(evs, Ev("sendCert", targets, FALSE, 1, Files[i], cur)), ok |-> FALSE]}
         \cup PushOutcomes(i + 1, targets,
                           Append(evs, Ev("sendCert", targets, TRUE, 0, Files[i], cur)), cur)

\* sendCerts without the `if c.deployConfig.MQ.External` that moves the
\* destinations to the directories of the configured paths
ManagedCertDest(mq, f) ==
    Join(DefaultKcAgentConfigPath, IF f = "ca" THEN DefaultCaPath ELSE DefaultNatsPKIPath)

\* destCa, destCert, destKey of sendCerts
CertDest(mq, f) ==
    IF mq.External
    THEN Dir(MQFile(mq, f))
    ELSE Join(DefaultKcAgentConfigPath, IF f = "ca" THEN DefaultCaPath ELSE DefaultNatsPKIPath)

\* JoinOptions.sendCerts, called by agentNodeFiles
sendCerts ==
    /\ pc = "sendCerts"
    /\ \E d \in DownloadOutcomes(1, localFiles, <<>>, node) :
          /\ localFiles' = d.files
          /\ IF ~d.ok
             THEN ops' = ops \o d.evs /\ CheckErr("runtime") /\ UNCHANGED certDest
             ELSE IF MQTLS
                  THEN \E s \in PushOutcomes(1, Range(ListIP(agentRegion)), <<>>, node) :
                          /\ ops' = ops \o d.evs \o s.evs
                          /\ certDest' = [f \in {s.evs[i].stdout : i \in 1..Len(s.evs)}
                                            |-> CertDest(MQ, f)]
                          /\ IF s.ok
                             THEN pc' = "template" /\ UNCHANGED <<exitCode, outcome>>
                             ELSE CheckErr("runtime")
                  ELSE /\ ops' = ops \o d.evs
                       /\ pc' = "template"
                       /\ UNCHANGED <<exitCode, outcome, certDest>>
    /\ UNCHANGED data
    /\ UNCHANGED <<agents, agentRegion, ServerIPs, MQTLS, MQ, Debug, AgentRegions, disk, diskSettings, loaded,
                   order, idx, completionMsg>>

\* the key of `data` that holds the path of a trust file
PathKey(f) ==
    CASE f = "ca"   -> "MQCaPath"
      [] f = "cert" -> "MQClientCertPath"
      [] f = "key"  -> "MQClientKeyPath"

FileOfKey(k) == CHOOSE f \in FileSet : PathKey(f) = k

\* the rendering that takes the managed paths whatever MQ.External says
KcAgentConfigDataManaged(r, tls, mq, debug) ==
    [k \in {"Region", "LogLevel", "MQExternal", "MQTLS"}
            \cup (IF tls THEN {PathKey(f) : f \in FileSet} ELSE {}) |->
        CASE k = "Region"     -> r
          [] k = "LogLevel"   -> IF debug THEN "debug" ELSE "info"
          [] k = "MQExternal" -> mq.External
          [] k = "MQTLS"      -> tls
          [] OTHER ->
                LET f == FileOfKey(k)
                IN  Join(Join(DefaultKcAgentConfigPath,
                              IF f = "ca" THEN DefaultCaPath ELSE DefaultNatsPKIPath),
                         Base(MQFile(mq, f)))]

\* the `data` map of getKcAgentConfigTemplateContent: the fields the template
\* is executed on (AgentID, the endpoints, the credentials and the log
\* settings are copied as they are and left out)
KcAgentConfigData(r, tls, mq, debug) ==
    [k \in {"Region", "LogLevel", "MQExternal", "MQTLS"}
            \cup (IF tls THEN {PathKey(f) : f \in FileSet} ELSE {}) |->
        CASE k = "Region"     -> r
          [] k = "LogLevel"   -> IF debug THEN "debug" ELSE "info"
          [] k = "MQExternal" -> mq.External
          [] k = "MQTLS"      -> tls
          [] OTHER ->
                LET f == FileOfKey(k)
                IN  IF mq.External
                    THEN MQFile(mq, f)
                    ELSE Join(Join(DefaultKcAgentConfigPath,
                                   IF f = "ca" THEN DefaultCaPath ELSE DefaultNatsPKIPath),
                              Base(MQFile(mq, f)))]

\* getKcAgentConfigTemplateContent logging the template error and returning
\* what it has instead of ending the process
getKcAgentConfigTemplateContentErrorf ==
    /\ pc = "template"
    /\ pc' = "cmdList"
    /\ data' = KcAgentConfigData(region, MQTLS, MQ, Debug)
    /\ \/ UNCHANGED outcome
       \/ outcome' = "template"
    /\ UNCHANGED certDest
    /\ UNCHANGED <<agents, agentRegion, ServerIPs, MQTLS, MQ, Debug, AgentRegions, disk, diskSettings, loaded,
                   localFiles, order, idx, ops, exitCode, completionMsg>>

\* JoinOptions.getKcAgentConfigTemplateContent: logger.Fatalf when the template
\* does not parse or execute
getKcAgentConfigTemplateContent ==
    /\ pc = "template"
    /\ data' = KcAgentConfigData(region, MQTLS, MQ, Debug)
    /\ \/ pc' = "cmdList" /\ UNCHANGED <<exitCode, outcome>>
       \/ Exit(1, "template")
    /\ UNCHANGED certDest
    /\ UNCHANGED <<agents, agentRegion, ServerIPs, MQTLS, MQ, Debug, AgentRegions, disk, diskSettings, loaded,
                   localFiles, order, idx, ops, completionMsg>>

\* the loop over a cmdList that writes kubeclipper-agent.yaml before the
\* directory and the unit file
RECURSIVE CmdOutcomesReversed(_, _, _)
CmdOutcomesReversed(i, evs, n) ==
    IF i > Len(cmdList)
    THEN {[evs |-> evs, ok |-> TRUE]}
    ELSE LET cmd == cmdList[Len(cmdList) + 1 - i]
         IN  {[evs |-> Append(evs, Ev("writeFile", {n}, FALSE, 1, cmd, n)), ok |-> FALSE]}
             \cup CmdOutcomesReversed(i + 1, Append(evs, Ev("writeFile", {n}, TRUE, 0, cmd, n)), n)

\* the ways the loop over cmdList can go from command i on
RECURSIVE CmdOutcomes(_, _, _)
CmdOutcomes(i, evs, n) ==
    IF i > Len(cmdList)
    THEN {[evs |-> evs, ok |-> TRUE]}
    ELSE {[evs |-> Append(evs, Ev("writeFile", {n}, FALSE, 1, cmdList[i], n)), ok |-> FALSE]}
         \cup CmdOutcomes(i + 1, Append(evs, Ev("writeFile", {n}, TRUE, 0, cmdList[i], n)), n)

\* the loop over cmdList going on, and agentNodeFiles returning nil, after a
\* command failed
agentNodeFilesIgnoreErr ==
    /\ pc = "cmdList"
    /\ \E c \in CmdOutcomes(1, <<>>, node) :
          /\ ops' = ops \o c.evs
          /\ pc' = "enableAgent"
          /\ UNCHANGED <<exitCode, outcome>>
    /\ UNCHANGED <<data, certDest>>
    /\ UNCHANGED <<agents, agentRegion, ServerIPs, MQTLS, MQ, Debug, AgentRegions, disk, diskSettings, loaded,
                   localFiles, order, idx, completionMsg>>

\* the loop over cmdList at the end of JoinOptions.agentNodeFiles
agentNodeFiles ==
    /\ pc = "cmdList"
    /\ \E c \in CmdOutcomes(1, <<>>, node) :
          /\ ops' = ops \o c.evs
          /\ IF c.ok
             THEN pc' = "enableAgent" /\ UNCHANGED <<exitCode, outcome>>
             ELSE CheckErr("runtime")
    /\ UNCHANGED <<data, certDest>>
    /\ UNCHANGED <<agents, agentRegion, ServerIPs, MQTLS, MQ, Debug, AgentRegions, disk, diskSettings, loaded,
                   localFiles, order, idx, completionMsg>>

\* the trace of one enableAgent call: the remote command and, when the call
\* got that far, the write of deploy-config.yaml
EnableEvents(okEnable, written, okWrite) ==
    <<Ev("enable", {node}, okEnable, IF okEnable THEN 0 ELSE 1, "", node)>>
    \o (IF written THEN <<Ev("write", {node}, okWrite, IF okWrite THEN 0 ELSE 1, "", node)>>
        ELSE <<>>)

\* runJoinAgentNode starting over with the first agent once the ranges are
\* exhausted
LoopStepAgain ==
    /\ idx' = IF idx = Len(order) THEN 1 ELSE idx + 1
    /\ pc' = "agentNodeFiles"
    /\ UNCHANGED <<exitCode, outcome, completionMsg>>

\* runJoinAgentNode after enableAgent returned nil: the next agent, or the
\* completion message and a nil return when the ranges are exhausted
LoopStep ==
    /\ idx' = idx + 1
    /\ IF idx = Len(order)
       THEN completionMsg' = TRUE /\ Exit(0, "completed")
       ELSE /\ pc' = "agentNodeFiles"
            /\ UNCHANGED <<exitCode, outcome, completionMsg>>

\* enableAgent going on to Add and Write although the enable command failed
enableAgentNoReturn ==
    /\ pc = "enableAgent"
    /\ \E okEnable \in BOOLEAN :
          /\ AgentRegions' = Add(AgentRegions, region, node)
          /\ \/ /\ ops' = ops \o EnableEvents(okEnable, TRUE, FALSE)
                /\ CheckErr("runtime")
                /\ UNCHANGED <<disk, diskSettings, idx, completionMsg>>
             \/ /\ ops' = ops \o EnableEvents(okEnable, TRUE, TRUE)
                /\ disk' = Write(AgentRegions')
                /\ diskSettings' = Write(Settings)
                /\ LoopStep
    /\ UNCHANGED <<data, certDest>>
    /\ UNCHANGED <<agents, agentRegion, ServerIPs, MQTLS, MQ, Debug, loaded, localFiles, order>>

\* enableAgent overwriting the region's bucket instead of adding to it
enableAgentOverwrite ==
    /\ pc = "enableAgent"
    /\ \/ /\ ops' = ops \o EnableEvents(FALSE, FALSE, FALSE)
          /\ CheckErr("runtime")
          /\ UNCHANGED <<AgentRegions, disk, diskSettings, idx, completionMsg>>
       \/ /\ AgentRegions' = [AgentRegions EXCEPT ![region] = {node}]
          /\ \/ /\ ops' = ops \o EnableEvents(TRUE, TRUE, FALSE)
                /\ CheckErr("runtime")
                /\ UNCHANGED <<disk, diskSettings, idx, completionMsg>>
             \/ /\ ops' = ops \o EnableEvents(TRUE, TRUE, TRUE)
                /\ disk' = Write(AgentRegions')
                /\ diskSettings' = Write(Settings)
                /\ LoopStep
    /\ UNCHANGED <<data, certDest>>
    /\ UNCHANGED <<agents, agentRegion, ServerIPs, MQTLS, MQ, Debug, loaded, localFiles, order>>

\* enableAgent undoing the run's earlier joins when the enable command fails
enableAgentRollback ==
    /\ pc = "enableAgent"
    /\ \/ /\ ops' = ops \o EnableEvents(FALSE, FALSE, FALSE)
          /\ AgentRegions' = loaded
          /\ disk' = Write(AgentRegions')
          /\ diskSettings' = Write(Settings)
          /\ CheckErr("runtime")
          /\ UNCHANGED <<idx, completionMsg>>
       \/ /\ AgentRegions' = Add(AgentRegions, region, node)
          /\ \/ /\ ops' = ops \o EnableEvents(TRUE, TRUE, FALSE)
                /\ CheckErr("runtime")
                /\ UNCHANGED <<disk, diskSettings, idx, completionMsg>>
             \/ /\ ops' = ops \o EnableEvents(TRUE, TRUE, TRUE)
                /\ disk' = Write(AgentRegions')
                /\ diskSettings' = Write(Settings)
                /\ LoopStep
    /\ UNCHANGED <<data, certDest>>
    /\ UNCHANGED <<agents, agentRegion, ServerIPs, MQTLS, MQ, Debug, loaded, localFiles, order>>

\* enableAgent leaving the write of deploy-config.yaml to the last agent
enableAgentBatched ==
    /\ pc = "enableAgent"
    /\ \/ /\ ops' = ops \o EnableEvents(FALSE, FALSE, FALSE)
          /\ CheckErr("runtime")
          /\ UNCHANGED <<AgentRegions, disk, diskSettings, idx, completionMsg>>
       \/ /\ AgentRegions' = Add(AgentRegions, region, node)
          /\ IF idx < Len(order)
             THEN /\ ops' = ops \o EnableEvents(TRUE, FALSE, FALSE)
                  /\ UNCHANGED <<disk, diskSettings>>
                  /\ LoopStep
             ELSE \/ /\ ops' = ops \o EnableEvents(TRUE, TRUE, FALSE)
                     /\ CheckErr("runtime")
                     /\ UNCHANGED <<disk, diskSettings, idx, completionMsg>>
                  \/ /\ ops' = ops \o EnableEvents(TRUE, TRUE, TRUE)
                     /\ disk' = Write(AgentRegions')
                     /\ diskSettings' = Write(Settings)
                     /\ LoopStep
    /\ UNCHANGED <<data, certDest>>
    /\ UNCHANGED <<agents, agentRegion, ServerIPs, MQTLS, MQ, Debug, loaded, localFiles, order>>

\* enableAgent dropping the error of deployConfig.Write
enableAgentWriteIgnored ==
    /\ pc = "enableAgent"
    /\ \/ /\ ops' = ops \o EnableEvents(FALSE, FALSE, FALSE)
          /\ CheckErr("runtime")
          /\ UNCHANGED <<AgentRegions, disk, diskSettings, idx, completionMsg>>
       \/ /\ AgentRegions' = Add(AgentRegions, region, node)
          /\ \/ /\ ops' = ops \o EnableEvents(TRUE, TRUE, FALSE)
                /\ UNCHANGED <<disk, diskSettings>>
                /\ LoopStep
             \/ /\ ops' = ops \o EnableEvents(TRUE, TRUE, TRUE)
                /\ disk' = Write(AgentRegions')
                /\ diskSettings' = Write(Settings)
                /\ LoopStep
    /\ UNCHANGED <<data, certDest>>
    /\ UNCHANGED <<agents, agentRegion, ServerIPs, MQTLS, MQ, Debug, loaded, localFiles, order>>

\* JoinOptions.enableAgent and, when it returns nil, the step of the loops of
\* runJoinAgentNode to the next agent or to the end
enableAgent ==
    /\ pc = "enableAgent"
    /\ \/ /\ ops' = ops \o EnableEvents(FALSE, FALSE, FALSE)
          /\ CheckErr("runtime")                  \* "enable kc agent"
          /\ UNCHANGED <<AgentRegions, disk, diskSettings, idx, completionMsg>>
       \/ /\ AgentRegions' = Add(AgentRegions, region, node)
          /\ \/ /\ ops' = ops \o EnableEvents(TRUE, TRUE, FALSE)
                /\ CheckErr("runtime")            \* deployConfig.Write failed
                /\ UNCHANGED <<disk, diskSettings, idx, completionMsg>>
             \/ /\ ops' = ops \o EnableEvents(TRUE, TRUE, TRUE)
                /\ disk' = Write(AgentRegions')
                /\ diskSettings' = Write(Settings)
                /\ LoopStep
    /\ UNCHANGED <<data, certDest>>
    /\ UNCHANGED <<agents, agentRegion, ServerIPs, MQTLS, MQ, Debug, loaded, localFiles, order>>

Next ==
    \/ Complete
    \/ ValidateArgs
    \/ sudoPreCheck
    \/ preCheckKcAgent
    \/ runJoinServerNode
    \/ runJoinAgentNode
    \/ SendPackageV2
    \/ sendCerts
    \/ getKcAgentConfigTemplateContent
    \/ agentNodeFiles
    \/ enableAgent

Spec == Init /\ [][Next]_vars

\* the invocations of Init on a cluster with at most one agent, the trust
\* files all fetched already or none of them
InitLive ==
    /\ pc = "Complete"
    /\ \E l \in CandidateLists : agents = Tokens(l)
    /\ agentRegion = EmptyRegions
    /\ ServerIPs \in {<<>>, <<"s1">>}
    /\ MQTLS \in BOOLEAN
    /\ MQ = ManagedMQ
    /\ Debug = FALSE
    /\ data = NoFields
    /\ certDest = NoFields
    /\ AgentRegions \in {t \in Topologies : \A m, n \in UNION {t[r] : r \in Regions} : m = n}
    /\ disk = AgentRegions
    /\ diskSettings = Settings
    /\ loaded = AgentRegions
    /\ localFiles \in {{}, FileSet}
    /\ order = <<>>
    /\ idx = 1
    /\ ops = <<>>
    /\ exitCode = -1
    /\ outcome = "running"
    /\ completionMsg = FALSE

\* every blocking call returns, with a result or a transport failure, so the
\* invocation always takes its next step
SpecLive == InitLive /\ [][Next]_vars /\ WF_vars(Next)

\* one candidate joined under each of the deploy configs of MQConfigs, with
\* the debug flag on or off
InitRender ==
    /\ pc = "Complete"
    /\ \E r \in Regions : agents = <<[region |-> r, ips |-> <<1>>]>>
    /\ agentRegion = EmptyRegions
    /\ ServerIPs = <<"s1">>
    /\ MQTLS \in BOOLEAN
    /\ MQ \in MQConfigs
    /\ Debug \in BOOLEAN
    /\ data = NoFields
    /\ certDest = NoFields
    /\ AgentRegions = [r \in Regions |-> {}]
    /\ disk = AgentRegions
    /\ diskSettings = Settings
    /\ loaded = AgentRegions
    /\ localFiles = FileSet
    /\ order = <<>>
    /\ idx = 1
    /\ ops = <<>>
    /\ exitCode = -1
    /\ outcome = "running"
    /\ completionMsg = FALSE

SpecRender == InitRender /\ [][Next]_vars

\* the lists of one or two addresses, repeats allowed
AddressLists == {<<a>> : a \in Nodes} \cup {<<a, b>> : a, b \in Nodes}

\* one or two raw tokens that may repeat an address, in one region or in two
DupTokens ==
    LET tok == {[region |-> r, ips |-> l] : r \in Regions, l \in AddressLists}
    IN  {<<t>> : t \in tok} \cup {<<t, u>> : t, u \in tok}

\* an invocation whose --agent tokens may name an address more than once
InitDup ==
    /\ pc = "Complete"
    /\ agents \in DupTokens
    /\ agentRegion = EmptyRegions
    /\ ServerIPs = <<"s1">>
    /\ MQTLS = FALSE
    /\ MQ = ManagedMQ
    /\ Debug = FALSE
    /\ data = NoFields
    /\ certDest = NoFields
    /\ AgentRegions \in Topologies
    /\ disk = AgentRegions
    /\ diskSettings = Settings
    /\ loaded = AgentRegions
    /\ localFiles = FileSet
    /\ order = <<>>
    /\ idx = 1
    /\ ops = <<>>
    /\ exitCode = -1
    /\ outcome = "running"
    /\ completionMsg = FALSE

SpecDup == InitDup /\ [][Next]_vars

\* ----------------------------------------------------------------- claims
Members(a) == UNION {a[r] : r \in Regions}

\* the addresses named by the --agent tokens
CandidateSet == UNION {Range(agents[i].ips) : i \in 1..Len(agents)}

MutatingOps == {i \in 1..Len(ops) : ops[i].kind \in MutatingKinds}

\* the enable command for n returned nil error and exit status 0
Activated(n) == \E i \in 1..Len(ops) : ops[i].kind = "enable" /\ ops[i].targets = {n} /\ ops[i].ok

ActivationFailed(n) ==
    \E i \in 1..Len(ops) : ops[i].kind = "enable" /\ ops[i].targets = {n} /\ ~ops[i].ok

Written(n, ok) ==
    \E i \in 1..Len(ops) : ops[i].kind = "write" /\ ops[i].targets = {n} /\ ops[i].ok = ok

Downloads(trace, f) ==
    {i \in 1..Len(trace) : trace[i].kind = "download" /\ trace[i].targets = {f}}

\* the position of n in the processing order, 0 when it is not in it
Pos(n) == IF \E j \in 1..Len(order) : order[j][2] = n
          THEN CHOOSE j \in 1..Len(order) : order[j][2] = n
          ELSE 0

InLoop == pc \in {"agentNodeFiles", "sendCerts", "template", "cmdList", "enableAgent"}

\* C1: when a candidate address is already in AgentRegions, no mutating remote
\* operation is ever issued and the topology in memory and on disk stays what
\* it was when the invocation started.
C1_PreflightGate ==
    (\E n \in CandidateSet : Exists(loaded, n))
        => /\ MutatingOps = {}
           /\ AgentRegions = loaded
           /\ disk = loaded
           /\ (pc = "exit" => outcome \in {"validation", "preflight"})

\* a run that probed one candidate and then met a candidate that is a member
C1_Witness ==
    /\ pc = "exit"
    /\ outcome = "preflight"
    /\ \E n \in CandidateSet : Exists(loaded, n)
    /\ \E i \in 1..Len(ops) : ops[i].kind = "probe" /\ ops[i].ok

\* C2 as claimed: a node added by the run is in the persisted topology if and
\* only if its enable command succeeded, also after a failed topology write.
C2_RecordedIffStarted ==
    /\ \A n \in Members(disk) \ Members(loaded) : Activated(n)
    /\ pc = "exit" => \A n \in CandidateSet : Activated(n) => n \in Members(disk)

\* C2 amended: a node is added to the topology (in memory or on disk) only
\* after its enable command succeeded; a node whose enable command succeeded is
\* in the in-memory topology, and in the persisted one unless the write that
\* followed its activation failed, in which case it is not on disk.
C2_RecordedIffStartedAndWritten ==
    /\ \A n \in (Members(disk) \cup Members(AgentRegions)) \ Members(loaded) : Activated(n)
    /\ \A n \in CandidateSet :
          Activated(n) => /\ n \in Members(AgentRegions)
                          /\ n \in Members(disk) <=> Written(n, TRUE)
                          /\ n \notin Members(disk) <=> Written(n, FALSE)

\* a run that joined one node and lost the write for the next one
C2_Witness ==
    /\ pc = "exit"
    /\ \E n, m \in CandidateSet :
          /\ Activated(n) /\ Written(n, TRUE)
          /\ Activated(m) /\ Written(m, FALSE) /\ m \notin Members(disk)

\* C3: when the first i nodes in processing order were activated and written
\* and the enable command of the next one failed, the persisted topology has
\* each of the first i under its region, none of the others, and the run
\* exits with an error.
C3_PartialRunDurability ==
    \A k \in 1..Len(order) :
        ( /\ pc = "exit"
          /\ ActivationFailed(order[k][2])
          /\ \A j \in 1..(k - 1) : Activated(order[j][2]) /\ Written(order[j][2], TRUE) )
        => /\ \A j \in 1..Len(order) :
                 IF j < k THEN order[j][2] \in disk[order[j][1]]
                          ELSE order[j][2] \notin Members(disk)
           /\ exitCode = 1
           /\ outcome = "runtime"

\* three candidates: the first joined, the second failed to start
C3_Witness ==
    /\ pc = "exit"
    /\ Len(order) = 3
    /\ Activated(order[1][2])
    /\ ActivationFailed(order[2][2])
    /\ order[1][2] \in Members(disk)

\* C4: the persisted topology only grows, no step follows a failed step (so
\* nothing is undone on an earlier node), and nothing follows the exit.
C4_AppendOnly ==
    [][ /\ \A r \in Regions : disk[r] \subseteq disk'[r]
        /\ \A r \in Regions : AgentRegions[r] \subseteq AgentRegions'[r]
        /\ \A i \in 1..(Len(ops') - 1) : ops'[i].ok
        /\ SubSeq(ops', 1, Len(ops)) = ops
        /\ pc # "exit" ]_vars

\* a run that joined a node and then failed on a later one
C4_Witness ==
    /\ pc = "exit"
    /\ outcome = "runtime"
    /\ idx >= 2
    /\ disk # loaded
    /\ ~ops[Len(ops)].ok

\* C5: every topology write directly follows the successful enable command of
\* its node and every successful enable command is directly followed by the
\* write for its node, at most one per node; when processing of a node begins
\* every node before it is already on disk.
C5_WritePerNode ==
    /\ \A i \in 1..Len(ops) :
          /\ ops[i].kind = "write" =>
                /\ i > 1
                /\ ops[i - 1].kind = "enable" /\ ops[i - 1].ok
                /\ ops[i - 1].targets = ops[i].targets
          /\ (ops[i].kind = "enable" /\ ops[i].ok) =>
                /\ i < Len(ops)
                /\ ops[i + 1].kind = "write"
    /\ \A i, j \in 1..Len(ops) :
          (ops[i].kind = "write" /\ ops[j].kind = "write" /\ ops[i].targets = ops[j].targets)
              => i = j
    /\ Cardinality({i \in 1..Len(ops) : ops[i].kind = "write"})
          = Cardinality({i \in 1..Len(ops) : ops[i].kind = "enable" /\ ops[i].ok})
    /\ InLoop => \A j \in 1..(idx - 1) : order[j][2] \in disk[order[j][1]]

\* processing of the third node begins
C5_Witness ==
    /\ pc = "agentNodeFiles"
    /\ idx = 3
    /\ Cardinality({i \in 1..Len(ops) : ops[i].kind = "write"}) = 2

\* C6 as claimed: every mutating remote operation targets only the node being
\* processed, and reaches a node only after every node before it in processing
\* order was activated and written.
C6_OneNodeAtATime ==
    \A i \in MutatingOps :
        /\ ops[i].targets = {ops[i].cur}
        /\ \A n \in ops[i].targets :
              \A q \in 1..(Pos(n) - 1) :
                  \E j \in 1..(i - 1) :
                      ops[j].kind = "write" /\ ops[j].ok /\ ops[j].targets = {order[q][2]}

\* C7: each trust file is downloaded at most once in a run, and a file that
\* is on the local disk is not downloaded.
C7_DownloadOnce ==
    [][ /\ \A f \in FileSet : Cardinality(Downloads(ops', f)) <= 1
        /\ \A f \in localFiles : Downloads(ops', f) = Downloads(ops, f) ]_vars

\* the second node went through sendCerts after the first node's sendCerts
\* had downloaded a file
C7_Witness ==
    /\ pc = "template"
    /\ idx = 2
    /\ \E i \in 1..Len(ops) : ops[i].kind = "download" /\ ops[i].ok /\ ops[i].cur = order[1][2]

\* C8 as claimed: with MQ.TLS off a run neither downloads a trust file nor
\* pushes one to a node.
C8_NoTrustWithoutTLS ==
    ~MQTLS => \A i \in 1..Len(ops) : ops[i].kind \notin {"download", "sendCert"}

\* C9 as claimed: when the probe finds the kc-agent service on a candidate,
\* the preflight fails and no node is touched.
C9_ProbeStopsJoin ==
    (\E i \in 1..Len(ops) : ops[i].kind = "probe" /\ ops[i].ok /\ ops[i].exit = 0)
        => /\ MutatingOps = {}
           /\ pc = "exit"
           /\ outcome = "preflight"

\* C10 as claimed: a validation, preflight or runtime failure ends in a
\* non-zero exit; exit 0 with the completion message only when every
\* candidate was activated and written.
C10_ExitStatus ==
    pc = "exit" =>
        /\ outcome \in {"validation", "preflight", "runtime", "template"} => exitCode # 0
        /\ (exitCode = 0 /\ completionMsg) =>
              \A n \in CandidateSet : Activated(n) /\ Written(n, TRUE) /\ n \in Members(disk)

\* the regions in sorted order
RegionOrder == <<"r1", "r2">>

\* the processing order with the regions visited in sorted order
SortedOrder(a) == Flatten(a, SelectSeq(RegionOrder, LAMBDA r : a[r] # <<>>))

\* C11 as claimed: the nodes are processed with the regions in sorted order,
\* so the order is a function of the input and of nothing else.
C11_SortedRegionOrder ==
    order # <<>> => order = SortedOrder(agentRegion)

\* the remote steps of one node
StepKinds == MutatingKinds \cup {"download"}

\* C12: a failed per-node step is the last operation of the run, which exits
\* with an error; its node is not in the topology; no step is issued twice
\* for a node.
C12_FailStop ==
    /\ \A i \in 1..Len(ops) :
          (ops[i].kind \in StepKinds /\ ~ops[i].ok) =>
              /\ i = Len(ops)
              /\ pc = "exit" /\ exitCode = 1 /\ outcome = "runtime"
              /\ ops[i].cur \notin Members(AgentRegions)
              /\ ops[i].cur \notin Members(disk)
    /\ \A i, j \in 1..Len(ops) :
          ( /\ ops[i].kind \in StepKinds /\ ops[i].kind = ops[j].kind
            /\ ops[i].cur = ops[j].cur /\ ops[i].stdout = ops[j].stdout
            /\ ops[i].targets = ops[j].targets ) => i = j

\* the second of three nodes failed while its files were written
C12_Witness ==
    /\ pc = "exit"
    /\ Len(order) = 3
    /\ idx = 2
    /\ ops[Len(ops)].kind = "writeFile"
    /\ ~ops[Len(ops)].ok
    /\ ops[Len(ops)].stdout = "kubeclipper-agent.yaml"

\* C13: with no server address or no --agent token the invocation never gets
\* past ValidateArgs: it ends with a validation error, exit status 1, without
\* any transport call and with the topology untouched.
C13_ValidationFirst ==
    (Len(ServerIPs) = 0 \/ Len(agents) = 0)
        => /\ pc \in {"Complete", "ValidateArgs", "exit"}
           /\ pc = "exit" => (outcome = "validation" /\ exitCode = 1)
           /\ ops = <<>>
           /\ AgentRegions = loaded
           /\ disk = loaded

\* candidates were given, but no server address is known
C13_Witness ==
    /\ pc = "exit"
    /\ outcome = "validation"
    /\ Len(ServerIPs) = 0
    /\ Len(agents) > 0
    /\ agentRegion # EmptyRegions

\* C14: a failed topology write is the last operation of the run, which exits
\* with an error; the nodes started by the run and absent from the persisted
\* topology are exactly the node of that write.
C14_PersistenceFailure ==
    \A i \in 1..Len(ops) :
        (ops[i].kind = "write" /\ ~ops[i].ok) =>
            /\ i = Len(ops)
            /\ pc = "exit" /\ exitCode = 1 /\ outcome = "runtime"
            /\ {n \in CandidateSet : Activated(n)} \ Members(disk) = ops[i].targets
            /\ Members(disk) \ Members(loaded) \subseteq {n \in CandidateSet : Activated(n)}
            /\ ops[i].targets \subseteq Members(AgentRegions)

\* the write for the second of three nodes failed
C14_Witness ==
    /\ pc = "exit"
    /\ Len(order) = 3
    /\ idx = 2
    /\ ops[Len(ops)].kind = "write"
    /\ ~ops[Len(ops)].ok
    /\ order[1][2] \in Members(disk)

\* C15: the step in which the template fails ends the process with a non-zero
\* status and issues nothing; no file write, activation or topology write has
\* been made for the node or a later one, none of them is in the topology, and
\* no step follows.
C15_TemplateFailure ==
    [][ /\ outcome # "template"
        /\ outcome' = "template" =>
              /\ pc' = "exit" /\ exitCode' # 0
              /\ ops' = ops /\ AgentRegions' = AgentRegions /\ disk' = disk
              /\ \A j \in idx'..Len(order') :
                    /\ order'[j][2] \notin Members(AgentRegions') \cup Members(disk')
                    /\ \A i \in 1..Len(ops') :
                          ops'[i].cur = order'[j][2]
                              => ops'[i].kind \notin {"writeFile", "enable", "write"} ]_vars

\* the template failed for the second of three nodes
C15_Witness ==
    /\ pc = "exit"
    /\ outcome = "template"
    /\ Len(order) = 3
    /\ idx = 2

\* the operations issued while node n was processed
NodeTrace(n) == SelectSeq(ops, LAMBDA e : e.cur = n)

IndexOf(seq, x) == CHOOSE k \in 1..Len(seq) : seq[k] = x

\* the place of an operation in the order of the steps of one node
Rank(e) ==
    CASE e.kind = "sendPkg"   -> 10
      [] e.kind = "download"  -> 20 + IndexOf(Files, CHOOSE f \in e.targets : TRUE)
      [] e.kind = "sendCert"  -> 30 + IndexOf(Files, e.stdout)
      [] e.kind = "writeFile" -> 40 + IndexOf(cmdList, e.stdout)
      [] e.kind = "enable"    -> 50
      [] e.kind = "write"     -> 60

\* the ranks a node's operations must have gone through before one of rank r
Required(r) ==
    {q \in {10, 41, 42, 43, 50} \cup (IF MQTLS THEN {31, 32, 33} ELSE {}) : q < r}

\* the steps of one node are in order, each after the success of those before
StepsInOrder(t) ==
    LET rk == [i \in 1..Len(t) |-> Rank(t[i])]
    IN  /\ \A i \in 1..(Len(t) - 1) : rk[i] < rk[i + 1] /\ t[i].ok
        /\ \A i \in 1..Len(t) : Required(rk[i]) \subseteq {rk[k] : k \in 1..(i - 1)}

\* C17: the operations of each node come in the order package, trust files,
\* unit file, directory, configuration file, enable command, topology write,
\* each only after the ones before it succeeded; the configuration is
\* rendered after sendCerts and before the file writes; a node is in the
\* in-memory topology only after its enable command succeeded.
C17_StepOrder ==
    [][ /\ ops' # ops =>
              LET c == ops'[Len(ops')].cur
              IN  /\ SubSeq(ops', 1, Len(ops)) = ops
                  /\ \A i \in (Len(ops) + 1)..Len(ops') : ops'[i].cur = c
                  /\ c # 0 => StepsInOrder(SelectSeq(ops', LAMBDA e : e.cur = c))
        /\ \A n \in Members(AgentRegions') \ Members(AgentRegions) :
              \E i \in 1..Len(ops') : ops'[i].kind = "enable" /\ ops'[i].ok /\ ops'[i].cur = n
        /\ pc' = "template" => pc = "sendCerts"
        /\ pc' = "cmdList" => pc = "template"
        /\ pc' = "enableAgent" => pc = "cmdList"
        /\ pc = "template" => ops' = ops
        /\ (\E i \in (Len(ops) + 1)..Len(ops') : ops'[i].kind = "writeFile") => pc = "cmdList"
        /\ (\E i \in (Len(ops) + 1)..Len(ops') : ops'[i].kind \in {"enable", "write"})
              => pc = "enableAgent" ]_vars

\* a node went through every step with TLS on
C17_Witness ==
    /\ MQTLS
    /\ idx = 2
    /\ pc = "agentNodeFiles"
    /\ Len(NodeTrace(order[1][2])) >= 9

\* the configuration of the node being processed has been rendered
Rendered == pc \in {"cmdList", "enableAgent"}

PathKeys == {PathKey(f) : f \in FileSet}

\* what C18 says apart from the managed paths: the path fields exist exactly
\* with TLS on, are the configured paths with external certificates, and the
\* log level follows the debug flag
RenderedFieldsCommon ==
    /\ data["Region"] = region
    /\ data["LogLevel"] = (IF Debug THEN "debug" ELSE "info")
    /\ \A k \in PathKeys : k \in DOMAIN data <=> MQTLS
    /\ (MQTLS /\ MQ.External) => \A f \in FileSet : data[PathKey(f)] = MQFile(MQ, f)

\* C18 as claimed: with managed certificates each path is the agent
\* configuration directory joined with the base name of the file.
C18_RenderedFields ==
    Rendered =>
        /\ RenderedFieldsCommon
        /\ (MQTLS /\ ~MQ.External) =>
              \A f \in FileSet :
                  data[PathKey(f)] = Join(DefaultKcAgentConfigPath, Base(MQFile(MQ, f)))

\* C18 amended: with managed certificates each path is the agent
\* configuration directory joined with the CA sub-directory (for the CA) or
\* the NATS PKI sub-directory (for the client certificate and key) and with
\* the base name of the file.
C18_RenderedFieldsSubdir ==
    Rendered =>
        /\ RenderedFieldsCommon
        /\ (MQTLS /\ ~MQ.External) =>
              /\ data["MQCaPath"] =
                    Join(Join(DefaultKcAgentConfigPath, DefaultCaPath), Base(MQ.CA))
              /\ data["MQClientCertPath"] =
                    Join(Join(DefaultKcAgentConfigPath, DefaultNatsPKIPath), Base(MQ.ClientCert))
              /\ data["MQClientKeyPath"] =
                    Join(Join(DefaultKcAgentConfigPath, DefaultNatsPKIPath), Base(MQ.ClientKey))

\* rendered with TLS, managed certificates and the debug flag on
C18_Witness ==
    /\ Rendered
    /\ MQTLS /\ ~MQ.External /\ Debug
    /\ data["LogLevel"] = "debug"
    /\ "MQCaPath" \in DOMAIN data

\* C19: with TLS on, in both certificate modes, the path of each trust file
\* in the rendered configuration is the directory sendCerts sent the file to,
\* joined with the base name of the file, and the file was sent to the node.
C19_PathsAgree ==
    (Rendered /\ MQTLS) =>
        \A f \in FileSet :
            /\ f \in DOMAIN certDest
            /\ data[PathKey(f)] = Join(certDest[f], Base(MQFile(MQ, f)))
            /\ \E i \in 1..Len(ops) :
                  /\ ops[i].kind = "sendCert" /\ ops[i].ok
                  /\ ops[i].stdout = f /\ node \in ops[i].targets

\* rendered with TLS and external certificates kept in different directories
C19_Witness ==
    /\ Rendered
    /\ MQTLS /\ MQ.External
    /\ Dir(MQ.CA) # Dir(MQ.ClientCert)
    /\ certDest["ca"] = Dir(MQ.CA)
    /\ data["MQCaPath"] = MQ.CA

\* the tokens without the addresses of gone
Without(tokens, gone) ==
    Tokens([r \in Regions |->
              SortedSeq({n \in Nodes \ gone :
                           \E i \in 1..Len(tokens) :
                              tokens[i].region = r /\ n \in Range(tokens[i].ips)})])

\* the operator invokes join once more after the first invocation has failed
\* while joining, with the same candidates or any part of them: a new process
\* that reads the deploy config back from disk. Its
\* trace starts with a mark that keeps the candidates of the first invocation
\* and the node that invocation failed on
Rerun ==
    /\ pc = "exit"
    /\ outcome \in {"runtime", "template"}
    /\ \A i \in 1..Len(ops) : ops[i].kind # "rerun"
    /\ \E gone \in SUBSET Nodes : agents' = Without(agents, gone)
    /\ ops' = <<Ev("rerun", UNION {Range(agents[i].ips) : i \in 1..Len(agents)},
                    FALSE, exitCode, "", ops[Len(ops)].cur)>>
    /\ pc' = "Complete"
    /\ agentRegion' = EmptyRegions
    /\ AgentRegions' = disk
    /\ loaded' = disk
    /\ order' = <<>>
    /\ idx' = 1
    /\ exitCode' = -1
    /\ outcome' = "running"
    /\ completionMsg' = FALSE
    /\ data' = NoFields
    /\ certDest' = NoFields
    /\ ServerIPs' = diskSettings.ServerIPs
    /\ MQTLS' = diskSettings.MQTLS
    /\ MQ' = diskSettings.MQ
    /\ Debug' = diskSettings.Debug
    /\ UNCHANGED <<disk, diskSettings, localFiles>>

\* a first invocation on a cluster without agents, the files of the first
\* server already fetched
InitRerun ==
    /\ pc = "Complete"
    /\ \E l \in CandidateLists : agents = Tokens(l)
    /\ agentRegion = EmptyRegions
    /\ ServerIPs = <<"s1">>
    /\ MQTLS = FALSE
    /\ MQ = ManagedMQ
    /\ Debug = FALSE
    /\ data = NoFields
    /\ certDest = NoFields
    /\ AgentRegions = [r \in Regions |-> {}]
    /\ disk = AgentRegions
    /\ diskSettings = Settings
    /\ loaded = AgentRegions
    /\ localFiles = FileSet
    /\ order = <<>>
    /\ idx = 1
    /\ ops = <<>>
    /\ exitCode = -1
    /\ outcome = "running"
    /\ completionMsg = FALSE

SpecRerun == InitRerun /\ [][Next \/ Rerun]_vars

\* every address is under at most one region
RegionUnique(a) == \A r1, r2 \in Regions : r1 # r2 => a[r1] \cap a[r2] = {}

\* the regions an address is named under by the --agent tokens
NamedUnder(n) == {agents[i].region : i \in {k \in 1..Len(agents) : n \in Range(agents[k].ips)}}

\* C16: whatever the tokens repeat, every address stays under at most one
\* region of AgentRegions, in memory and on disk, and no candidate is listed
\* twice.
C16_RegionUnique ==
    /\ RegionUnique(AgentRegions)
    /\ RegionUnique(disk)
    /\ \A r1, r2 \in Regions : r1 # r2 => Range(agentRegion[r1]) \cap Range(agentRegion[r2]) = {}
    /\ \A r \in Regions : \A i, j \in 1..Len(agentRegion[r]) :
          agentRegion[r][i] = agentRegion[r][j] => i = j

\* a completed run whose tokens named a joined address under both regions
C16_Witness ==
    /\ pc = "exit"
    /\ outcome = "completed"
    /\ \E n \in Members(disk) \ Members(loaded) : NamedUnder(n) = Regions
    /\ Members(loaded) # {}

\* the position of the mark between the two invocations, 0 during the first
Mark == IF \E i \in 1..Len(ops) : ops[i].kind = "rerun"
        THEN CHOOSE i \in 1..Len(ops) : ops[i].kind = "rerun"
        ELSE 0

\* the first invocation recorded a and then failed while provisioning b
JoinedThenFailed(a, b) ==
    /\ Mark > 0
    /\ a # b
    /\ a \in Members(loaded) \cap ops[Mark].targets
    /\ b = ops[Mark].cur
    /\ b \notin Members(loaded)

\* C20: a second invocation that names an address already recorded on disk
\* performs no mutating remote operation, leaves the topology as loaded and
\* ends in preflight (or validation); in particular after "a joined, b failed"
\* the same candidates do not get b joined. A second invocation that joins
\* any node names no recorded address.
C20_RerunBlocked ==
    Mark > 0 =>
      /\ CandidateSet \cap Members(loaded) # {} =>
            /\ \A i \in (Mark + 1)..Len(ops) : ops[i].kind \notin MutatingKinds \cup {"write"}
            /\ AgentRegions = loaded
            /\ disk = loaded
            /\ pc = "exit" => outcome \in {"validation", "preflight"}
            /\ ~completionMsg
      /\ \A a, b \in Nodes :
            JoinedThenFailed(a, b) /\ CandidateSet = ops[Mark].targets =>
               /\ b \notin Members(disk) \cup Members(AgentRegions)
               /\ pc \in {"Complete", "ValidateArgs", "preCheck", "preCheckKcAgent", "exit"}
      /\ Members(disk) # Members(loaded) => CandidateSet \cap Members(loaded) = {}

\* the second invocation with the same candidates a and b was stopped by the
\* membership check after a had been joined and b had failed
C20_Witness ==
    /\ Mark > 0
    /\ pc = "exit"
    /\ outcome = "preflight"
    /\ CandidateSet = ops[Mark].targets
    /\ \E a, b \in CandidateSet : JoinedThenFailed(a, b)
    /\ ops[Len(ops)].kind \in {"sudoCheck", "probe"}
    /\ ops[Len(ops)].ok

\* a second invocation over the remaining candidate only joined it
C20_WitnessExcluding ==
    /\ Mark > 0
    /\ pc = "exit"
    /\ outcome = "completed"
    /\ \E a \in Members(loaded), b \in CandidateSet :
          /\ JoinedThenFailed(a, b)
          /\ b \in Members(disk)

\* C21: no step changes the server list or a cluster-wide setting, in memory
\* or in the file, and what a topology write puts in the file is what was
\* loaded; the server-join phase issues no operation, changes nothing and goes
\* on to the agents without ending the run.
C21_SettingsFrame ==
    [][ /\ Settings' = Settings
        /\ diskSettings' = diskSettings
        /\ diskSettings' = Settings'
        /\ pc = "runJoinServerNode" =>
              /\ pc' = "runJoinAgentNode"
              /\ ops' = ops
              /\ exitCode' = exitCode /\ outcome' = outcome
              /\ AgentRegions' = AgentRegions /\ disk' = disk ]_vars

\* a completed run that went through the server-join phase and wrote the
\* topology for two nodes
C21_Witness ==
    /\ pc = "exit"
    /\ outcome = "completed"
    /\ ServerIPs # <<>>
    /\ Cardinality(Members(disk) \ Members(loaded)) = 2
    /\ \A i \in 1..Len(ops) : ops[i].kind \in {"sudoCheck", "probe"} \/ ops[i].cur # 0
    /\ diskSettings = Settings

\* the ways an invocation ends (a template failure is a failure at run time)
TerminalOutcomes == {"validation", "preflight", "runtime", "template", "completed"}

\* the nodes the trace has issued steps for
Visited(trace) == {trace[i].cur : i \in 1..Len(trace)} \ {0}

\* the operations a step adds belong to the node last worked on or to a node
\* not visited before, and none repeats an operation already issued for it
OnePass ==
    \A i \in (Len(ops) + 1)..Len(ops') :
        LET e == ops'[i]
        IN  /\ SubSeq(ops', 1, Len(ops)) = ops
            /\ e.cur # 0 =>
                  /\ e.cur \in Visited(SubSeq(ops', 1, i - 1)) => ops'[i - 1].cur = e.cur
                  /\ \A j \in 1..(i - 1) :
                        ~( /\ ops'[j].cur = e.cur /\ ops'[j].kind = e.kind
                           /\ ops'[j].stdout = e.stdout /\ ops'[j].targets = e.targets )
            /\ e.cur = 0 => Visited(SubSeq(ops', 1, i - 1)) = {}

====
